---- MODULE Spec2Model ----
(***************************************************************************)
(* Restaurant / review service on a shared Redis store.                    *)
(*                                                                         *)
(* Every Redis command is one atomic step of the store.  A request handler *)
(* is a task in a slot: it runs its middleware, then its commands.  The    *)
(* commands of one Promise.all batch are all issued before any reply is    *)
(* awaited, so they reach the store in any order and interleaved with the  *)
(* commands of every other task; the code after the batch runs when the    *)
(* last reply is in.                                                       *)
(*                                                                         *)
(* Numbers the code stores with one decimal (averageRating, ranking        *)
(* scores) are kept in tenths: 45 stands for 4.5.                          *)
(***************************************************************************)
EXTENDS Integers, Sequences, FiniteSets, TLC

(***************************************************************************)
(* Bounds of the model.                                                    *)
(***************************************************************************)
\* Request-handling tasks in flight at once.
MaxSlots == 2
\* Requests the service receives in one run of the review specification.
MaxRequests == 3
\* Requests in one run of the specifications of a single route family.
MaxFewRequests == 2
\* Requests in one run of the ranking specification.
MaxRankRequests == 4
\* Creations in flight at once in the creation specification.
MaxCreators == 1
\* Tasks in flight at once where every route that names a restaurant is run.
MaxScopedTasks == 1
\* Requests in one run of the specification whose store calls may fail.
MaxFailingRequests == 1
\* The last instant of the clock.
MaxTime == 61
\* Restaurant ids: those nanoid() hands out, and one more a request can name.
MaxRestaurants == 3

RIds == 1..MaxRestaurants
\* Ratings a validated review body carries.
Ratings == {1, 5}
\* Restaurants the review specifications start with (created one after another).
Seeded == {1, 2}
Names == {"a", "a|b"}
Locations == {"c"}
Tags == {"Italian", "Pizza"}
\* The cuisines arrays of the create requests.
CuisineInputs == {{"Italian"}, {"Pizza"}}
Details == {"x", "y"}
Payloads == {"sunny", "rain"}
\* { EX: 60 }
WeatherTtl == 60
Pages == {1, 2}
Limits == {1, 2}

\* The reply of a read that finds nothing (undefined / null): no id, count or rating.
Nil == 0 - 1

(***************************************************************************)
(* The store's structures, as the commands of node-redis act on them.      *)
(* A hash is a function from its fields; a key with no field does not      *)
(* exist.                                                                  *)
(***************************************************************************)
EmptyHash == <<>>

\* The value at key k of a family of keys; a key never written holds nothing.
Key(family, k) == IF k \in DOMAIN family THEN family[k] ELSE EmptyHash

\* The family with key k holding v; a key left with nothing is gone (DEL).
Put(family, k, v) ==
    [x \in (DOMAIN family \cup {k}) \ (IF v = EmptyHash THEN {k} ELSE {}) |->
        IF x = k THEN v ELSE family[x]]

Exists(h) == DOMAIN h # {}

HSet(h, data) ==
    [f \in DOMAIN h \cup DOMAIN data |-> IF f \in DOMAIN data THEN data[f] ELSE h[f]]

HGet(h, field) == IF field \in DOMAIN h THEN h[field] ELSE Nil

\* A mutant of HIncrBy: the increment overwrites the field instead of adding to it.
HIncrByOverwrite(h, field, n) == HSet(h, field :> n)

\* HINCRBY: atomic; a missing field (or key) counts as 0.
HIncrBy(h, field, n) ==
    HSet(h, field :> ((IF field \in DOMAIN h THEN h[field] ELSE 0) + n))

\* A push that prepends the value twice.
LPushTwice(l, v) == <<v, v>> \o l

\* A push to the tail of the list.
RPush(l, v) == l \o <<v>>

\* LPUSH prepends; its reply is the new length.
LPush(l, v) == <<v>> \o l

\* An LREM that drops the head of the list, whatever it is.
LRemHead(l, v) == IF l = <<>> THEN l ELSE Tail(l)

\* LREM key 1 v: drops the first occurrence of v from the head.
RECURSIVE LRem1(_, _)
LRem1(l, v) ==
    IF l = <<>> THEN <<>>
    ELSE IF Head(l) = v THEN Tail(l)
    ELSE <<Head(l)>> \o LRem1(Tail(l), v)

\* A ZADD that leaves the set with the one member.
ZAddAlone(z, score, member) == (member :> score)

\* ZADD on a sorted set kept as member -> score: insert or overwrite the score.
ZAdd(z, score, member) ==
    [m \in DOMAIN z \cup {member} |-> IF m = member THEN score ELSE z[m]]

\* The order of ZRANGE ... REV: score descending, ties by member descending.
ZBefore(z, a, b) == z[a] > z[b] \/ (z[a] = z[b] /\ a > b)

RECURSIVE ZRevOrder(_, _)
ZRevOrder(z, members) ==
    IF members = {} THEN <<>>
    ELSE LET top == CHOOSE a \in members : \A b \in members \ {a} : ZBefore(z, a, b)
         IN  <<top>> \o ZRevOrder(z, members \ {top})

\* Elements start..end (0-based, inclusive) of a sequence, as LRANGE and ZRANGE cut.
Range(seq, start, end) ==
    LET last == IF end < Len(seq) - 1 THEN end ELSE Len(seq) - 1
    IN  IF start > last THEN <<>> ELSE [i \in 1..(last - start + 1) |-> seq[start + i]]

ZRangeRev(z, start, end) == Range(ZRevOrder(z, DOMAIN z), start, end)

\* Number((totalRating / reviewCount).toFixed(1)), in tenths: toFixed rounds the
\* exact quotient to the nearest tenth, a tie upwards.
Round1(totalRating, reviewCount) ==
    (20 * totalRating + reviewCount) \div (2 * reviewCount)

\* `${data.name}|${data.location}`
BloomString(name, location) == name \o "|" \o location

\* A BF.EXISTS that reports every item as seen.
BfExistsAlways(b, item) == {TRUE}

\* BF.EXISTS: no false negative; a false positive only on a filter that holds something.
BfExistsReplies(b, item) ==
    IF item \in b THEN {TRUE} ELSE IF b = {} THEN {FALSE} ELSE {FALSE, TRUE}

\* A BF.ADD that records nothing.
BfAddNothing(b, item) == b

\* BF.ADD
BfAdd(b, item) == b \cup {item}

\* SADD
SAdd(set, member) == set \cup {member}

\* How often key k was counted in a tally; a key never counted has 0.
Times(tally, k) == IF k \in DOMAIN tally THEN tally[k] ELSE 0

Counted(tally, k) == (k :> Times(tally, k) + 1) @@ tally

(***************************************************************************)
(* State.                                                                  *)
(***************************************************************************)
VARIABLES
    restaurant,          \* bites:restaurant:{id}, a hash per restaurant id
    reviews,             \* bites:reviews:{restaurantId}, a list of review ids
    reviewDetails,       \* bites:review_details:{reviewId}, a hash per review id
    cuisines,            \* bites:cuisines, the set of all tags
    cuisine,             \* bites:cuisine:{name}, the restaurant ids of a tag
    restaurantCuisines,  \* bites:restaurant_cuisines:{id}, the tags of a restaurant
    restaurentsByRating, \* bites:restaurents_by_rating, the sorted set
    bloom,               \* bites:bloom:restaurents, the items added to the filter
    restaurantDetails,   \* bites:restaurant_details:{id}, a JSON document per restaurant id
    weather,             \* bites:weather:{id}, the cached payload and when it expires
    now,                 \* the time, in the seconds of the cache's expiry
    nextRestaurantId,    \* the next id nanoid() gives a restaurant
    nextReviewId,        \* the next id nanoid() gives a review
    req,                 \* the tasks in flight: the request of each and how far it has run
    arrivals,            \* the requests received so far
    response,            \* the last response sent to a caller: its kind, and the listing's records
                         \* as its payload (the payload of another response is not kept)
    pushed,              \* history: per restaurant, the review ids in the order they reached its list,
                         \* the latest first
    doneAdds,            \* history: per restaurant, sum and number of the ratings of completed additions
    everRemoved,         \* history: a removal has taken a review of the restaurant out of the store
    okRemoves,           \* history: per review id, the removals that reported success
    doneGets,            \* history: per restaurant, the completed get(id) calls
    createdOk,           \* history: the name|location of every create that reported success
    givenCuisines,       \* history: per restaurant id, the cuisines of the create that drew the id
    lastPut,             \* history: per restaurant, the payload and the time of the last write of
                         \* its weather cache entry
    unanswered,          \* history: the requests whose handler is over with no response sent
    failedCalls,         \* history: the requests that have had a store call fail
    rejected             \* history: the name|location of every create answered Conflict, each with
                         \* whether a create of it had reported success before

storeVars == <<restaurant, reviews, reviewDetails, cuisines, cuisine,
               restaurantCuisines, restaurentsByRating, bloom, restaurantDetails, weather>>
cuisineVars == <<cuisines, cuisine, restaurantCuisines>>
idVars == <<nextRestaurantId, nextReviewId>>
historyVars == <<pushed, doneAdds, everRemoved, okRemoves, doneGets, createdOk, givenCuisines, lastPut,
                 unanswered, failedCalls, rejected>>
vars == <<storeVars, idVars, now, req, arrivals, response, historyVars>>

\* The locals of a task before its handler has set any.
Idle ==
    [op |-> "idle", pc |-> "idle", restaurantId |-> 0, reviewId |-> 0, rating |-> 0,
     name |-> "", location |-> "", cuisines |-> {}, start |-> 0, end |-> 0,
     pending |-> {}, reviewCount |-> 0, totalRating |-> 0, newAverageRating |-> 0,
     restaurantIds |-> <<>>, restaurants |-> <<>>, reviewIds |-> <<>>, reviews |-> <<>>,
     data |-> <<>>, latitude |-> 0, longitude |-> 0, json |-> ""]

NoResponse == [op |-> "idle", result |-> "none", data |-> <<>>]

\* There is room for one more request: a free task, and the run is not over.
Room(slots, requests) ==
    /\ Cardinality(DOMAIN req) < slots
    /\ arrivals < requests

\* A request arrives and its task starts, with the locals r.
Arrive(r) ==
    /\ arrivals' = arrivals + 1
    /\ req' = (arrivals + 1 :> r) @@ req
    /\ UNCHANGED response

\* The task answers its caller at once: its request never shows in req.
ArriveReply(r, outcome, data) ==
    /\ arrivals' = arrivals + 1
    /\ response' = [op |-> r.op, result |-> outcome, data |-> data]
    /\ UNCHANGED req

\* The task goes on with its locals r; no response yet.
Continue(s, r) ==
    /\ req' = [req EXCEPT ![s] = r]
    /\ UNCHANGED <<response, arrivals>>

\* successResponse / errorResponse: the task answers its caller and ends.
Reply(s, outcome, data) ==
    /\ req' = [t \in DOMAIN req \ {s} |-> req[t]]
    /\ response' = [op |-> req[s].op, result |-> outcome, data |-> data]
    /\ UNCHANGED arrivals

\* What is left of a Promise.all batch once command c has its reply.
Rest(r, c) == [r EXCEPT !.pending = r.pending \ {c}]

\* hashData of a create.
HashData(id, name, location) ==
    [id |-> id, name |-> name, location |-> location,
     viewCount |-> 0, averageRating |-> 0, totalReviews |-> 0]

InitHistory ==
    /\ pushed = [r \in RIds |-> <<>>]
    /\ doneAdds = [r \in RIds |-> [sum |-> 0, n |-> 0]]
    /\ everRemoved = [r \in RIds |-> FALSE]
    /\ okRemoves = <<>>
    /\ arrivals = 0
    /\ rejected = {}
    /\ lastPut = <<>>
    /\ unanswered = {}
    /\ failedCalls = {}
    /\ doneGets = [r \in RIds |-> 0]

\* The empty store, the filter reserved by seed/bloomFilter.ts, no request.
Init ==
    /\ restaurant = [r \in RIds |-> EmptyHash]
    /\ reviews = [r \in RIds |-> <<>>]
    /\ reviewDetails = <<>>
    /\ cuisines = {}
    /\ cuisine = [t \in Tags |-> {}]
    /\ restaurantCuisines = [r \in RIds |-> {}]
    /\ restaurentsByRating = <<>>
    /\ bloom = {}
    /\ restaurantDetails = <<>>
    /\ weather = <<>>
    /\ now = 0
    /\ nextRestaurantId = 1
    /\ nextReviewId = 1
    /\ InitHistory
    /\ createdOk = {}
    /\ givenCuisines = [r \in RIds |-> {}]
    /\ req = <<>>
    /\ response = NoResponse

\* The store once the restaurants of Seeded have been created one after another,
\* restaurant i as (SeedName(i), "c") with the one tag "Italian".
SeedName(i) == IF i = 1 THEN "a" ELSE "a|b"

InitSeeded ==
    /\ restaurant = [r \in RIds |->
            IF r \in Seeded THEN HashData(r, SeedName(r), "c") ELSE EmptyHash]
    /\ reviews = [r \in RIds |-> <<>>]
    /\ reviewDetails = <<>>
    /\ cuisines = {"Italian"}
    /\ cuisine = [t \in Tags |-> IF t = "Italian" THEN Seeded ELSE {}]
    /\ restaurantCuisines = [r \in RIds |-> IF r \in Seeded THEN {"Italian"} ELSE {}]
    /\ restaurentsByRating = [r \in Seeded |-> 0]
    /\ bloom = {BloomString(SeedName(r), "c") : r \in Seeded}
    /\ restaurantDetails = <<>>
    /\ weather = <<>>
    /\ now = 0
    /\ nextRestaurantId = Cardinality(Seeded) + 1
    /\ nextReviewId = 1
    /\ InitHistory
    /\ createdOk = {BloomString(SeedName(r), "c") : r \in Seeded}
    /\ givenCuisines = [r \in RIds |-> IF r \in Seeded THEN {"Italian"} ELSE {}]
    /\ req = <<>>
    /\ response = NoResponse


\* The seeded store once restaurant 1 has had three reviews added one after
\* another: review 1 with rating 5, review 2 with rating 1, review 3 with rating 5.
SeedRating(v) == IF v = 2 THEN 1 ELSE 5

InitReviewed ==
    /\ restaurant = [r \in RIds |->
            IF r = 1 THEN HSet(HashData(r, SeedName(r), "c"),
                               [totalReviews |-> 11, averageRating |-> Round1(11, 3)])
            ELSE IF r \in Seeded THEN HashData(r, SeedName(r), "c") ELSE EmptyHash]
    /\ reviews = [r \in RIds |-> IF r = 1 THEN <<3, 2, 1>> ELSE <<>>]
    /\ reviewDetails = [v \in 1..3 |-> [id |-> v, rating |-> SeedRating(v), restaurantId |-> 1]]
    /\ cuisines = {"Italian"}
    /\ cuisine = [t \in Tags |-> IF t = "Italian" THEN Seeded ELSE {}]
    /\ restaurantCuisines = [r \in RIds |-> IF r \in Seeded THEN {"Italian"} ELSE {}]
    /\ restaurentsByRating = [r \in Seeded |-> IF r = 1 THEN Round1(11, 3) ELSE 0]
    /\ bloom = {BloomString(SeedName(r), "c") : r \in Seeded}
    /\ restaurantDetails = <<>>
    /\ weather = <<>>
    /\ now = 0
    /\ nextRestaurantId = Cardinality(Seeded) + 1
    /\ nextReviewId = 4
    /\ pushed = [r \in RIds |-> IF r = 1 THEN <<3, 2, 1>> ELSE <<>>]
    /\ doneAdds = [r \in RIds |-> IF r = 1 THEN [sum |-> 11, n |-> 3] ELSE [sum |-> 0, n |-> 0]]
    /\ everRemoved = [r \in RIds |-> FALSE]
    /\ okRemoves = <<>>
    /\ arrivals = 0
    /\ rejected = {}
    /\ lastPut = <<>>
    /\ unanswered = {}
    /\ failedCalls = {}
    /\ doneGets = [r \in RIds |-> 0]
    /\ createdOk = {BloomString(SeedName(r), "c") : r \in Seeded}
    /\ givenCuisines = [r \in RIds |-> IF r \in Seeded THEN {"Italian"} ELSE {}]
    /\ req = <<>>
    /\ response = NoResponse

\* The seeded store with coordinates in the record of restaurant 1; no route
\* writes latitude or longitude, they are put into the hash from outside.
InitWeather ==
    /\ restaurant = [r \in RIds |->
            IF r = 1 THEN HSet(HashData(r, SeedName(r), "c"), [latitude |-> 1, longitude |-> 1])
            ELSE IF r \in Seeded THEN HashData(r, SeedName(r), "c") ELSE EmptyHash]
    /\ reviews = [r \in RIds |-> <<>>]
    /\ reviewDetails = <<>>
    /\ cuisines = {"Italian"}
    /\ cuisine = [t \in Tags |-> IF t = "Italian" THEN Seeded ELSE {}]
    /\ restaurantCuisines = [r \in RIds |-> IF r \in Seeded THEN {"Italian"} ELSE {}]
    /\ restaurentsByRating = [r \in Seeded |-> 0]
    /\ bloom = {BloomString(SeedName(r), "c") : r \in Seeded}
    /\ restaurantDetails = <<>>
    /\ weather = <<>>
    /\ now = 0
    /\ nextRestaurantId = Cardinality(Seeded) + 1
    /\ nextReviewId = 1
    /\ InitHistory
    /\ createdOk = {BloomString(SeedName(r), "c") : r \in Seeded}
    /\ givenCuisines = [r \in RIds |-> IF r \in Seeded THEN {"Italian"} ELSE {}]
    /\ req = <<>>
    /\ response = NoResponse
(***************************************************************************)
(* checkRestaurantExists, the middleware in front of every route that      *)
(* names a restaurant: EXISTS on the restaurant's hash, 404 when it is     *)
(* missing, else the route's handler starts with the locals r.  A request  *)
(* touches nothing before this command, so it arrives with it.             *)
(***************************************************************************)
\* A middleware that lets every request through.
checkNothing(r) == Arrive(r)

checkRestaurantExists(r) ==
    IF Exists(restaurant[r.restaurantId])
    THEN Arrive(r)
    ELSE ArriveReply(r, "NotFound", <<>>)

(***************************************************************************)
(* POST /:restaurantId/reviews                                             *)
(***************************************************************************)
\* The middleware, then reviewId = nanoid() and the first batch is issued.
PostReview(id, rating) ==
    /\ checkRestaurantExists(
            [Idle EXCEPT !.op = "addReview", !.pc = "batch1", !.restaurantId = id,
                         !.rating = rating, !.reviewId = nextReviewId,
                         !.pending = {"lPush", "hSet", "hIncrBy"}])
    /\ nextReviewId' = IF Exists(restaurant[id]) THEN nextReviewId + 1 ELSE nextReviewId
    /\ UNCHANGED <<now, storeVars, nextRestaurantId, historyVars>>

\* reviewData: the fields of the review's hash the routes read back.
ReviewData(r) ==
    [id |-> r.reviewId, rating |-> r.rating, restaurantId |-> r.restaurantId]

\* const newAverageRating = Number((totalRating / reviewCount).toFixed(1))
NewAverageRating(totalRating, reviewCount) == Round1(totalRating, reviewCount)

\* After the last reply of the first batch the average is computed and the
\* second batch is issued.
AfterBatch1(r, c) ==
    IF r.pending = {c}
    THEN [r EXCEPT !.pc = "batch2", !.pending = {"hSet", "zAdd"},
                   !.newAverageRating = NewAverageRating(r.totalRating, r.reviewCount)]
    ELSE Rest(r, c)

\* One command of Promise.all([lPush, hSet, hIncrBy]).
PostReviewBatch1(s) ==
    /\ req[s].op = "addReview"
    /\ req[s].pc = "batch1"
    /\ \E c \in req[s].pending :
        LET r == req[s]
            id == r.restaurantId
        IN  CASE c = "lPush" ->
                    /\ reviews' = [reviews EXCEPT ![id] = LPush(reviews[id], r.reviewId)]
                    /\ pushed' = [pushed EXCEPT ![id] = <<r.reviewId>> \o @]
                    /\ Continue(s, AfterBatch1(
                            [r EXCEPT !.reviewCount = Len(LPush(reviews[id], r.reviewId))], c))
                    /\ UNCHANGED <<restaurant, reviewDetails>>
              [] c = "hSet" ->
                    /\ reviewDetails' = Put(reviewDetails, r.reviewId,
                            HSet(Key(reviewDetails, r.reviewId), ReviewData(r)))
                    /\ Continue(s, AfterBatch1(r, c))
                    /\ UNCHANGED <<restaurant, reviews, pushed>>
              [] c = "hIncrBy" ->
                    /\ restaurant' = [restaurant EXCEPT ![id] =
                            HIncrBy(restaurant[id], "totalReviews", r.rating)]
                    /\ Continue(s, AfterBatch1(
                            [r EXCEPT !.totalRating =
                                HIncrBy(restaurant[id], "totalReviews", r.rating).totalReviews], c))
                    /\ UNCHANGED <<reviews, reviewDetails, pushed>>
    /\ UNCHANGED <<now, restaurantDetails, weather, cuisineVars, restaurentsByRating, bloom, idVars,
                   doneAdds, everRemoved, okRemoves, doneGets, createdOk, givenCuisines, rejected, lastPut, unanswered, failedCalls>>

\* One command of Promise.all([hSet averageRating, zAdd]); after the last, the response.
PostReviewBatch2(s) ==
    /\ req[s].op = "addReview"
    /\ req[s].pc = "batch2"
    /\ \E c \in req[s].pending :
        LET r == req[s]
            id == r.restaurantId
            last == r.pending = {c}
        IN  /\ CASE c = "hSet" ->
                    /\ restaurant' = [restaurant EXCEPT ![id] =
                            HSet(restaurant[id], [averageRating |-> r.newAverageRating])]
                    /\ UNCHANGED restaurentsByRating
                 [] c = "zAdd" ->
                    /\ restaurentsByRating' = ZAdd(restaurentsByRating, r.newAverageRating, id)
                    /\ UNCHANGED restaurant
            /\ IF last THEN Reply(s, "Ok", <<>>) ELSE Continue(s, Rest(r, c))
            /\ doneAdds' = IF last
                           THEN [doneAdds EXCEPT ![id] =
                                    [sum |-> @.sum + r.rating, n |-> @.n + 1]]
                           ELSE doneAdds
    /\ UNCHANGED <<now, restaurantDetails, weather, reviews, reviewDetails, cuisineVars, bloom,
                   idVars, pushed, everRemoved, okRemoves, doneGets, createdOk, givenCuisines, rejected, lastPut, unanswered, failedCalls>>

(***************************************************************************)
(* DELETE /:restaurantId/reviews/:reviewId                                 *)
(***************************************************************************)
DeleteReview(id, v) ==
    /\ checkRestaurantExists(
            [Idle EXCEPT !.op = "removeReview", !.pc = "exists", !.restaurantId = id,
                         !.reviewId = v])
    /\ UNCHANGED <<now, storeVars, idVars, historyVars>>

\* reviewExists = await client.exists(reviewDetailsKey)
DeleteReviewExists(s) ==
    /\ req[s].op = "removeReview"
    /\ req[s].pc = "exists"
    /\ IF Exists(Key(reviewDetails, req[s].reviewId))
       THEN Continue(s, [req[s] EXCEPT !.pc = "hGet"])
       ELSE Reply(s, "NotFound", <<>>)
    /\ UNCHANGED <<now, storeVars, idVars, historyVars>>

\* A mutant of BelongsTo: the back-reference is never compared.
BelongsToAlways(reviewData, restaurantId) == TRUE

\* reviewData !== restaurantId, negated
BelongsTo(reviewData, restaurantId) == reviewData = restaurantId

\* reviewData = await client.hGet(reviewDetailsKey, "restaurantId")
DeleteReviewOwner(s) ==
    /\ req[s].op = "removeReview"
    /\ req[s].pc = "hGet"
    /\ IF BelongsTo(HGet(Key(reviewDetails, req[s].reviewId), "restaurantId"),
                    req[s].restaurantId)
       THEN Continue(s, [req[s] EXCEPT !.pc = "batch", !.pending = {"lRem", "del"}])
       ELSE Reply(s, "IntegrityMismatch", <<>>)
    /\ UNCHANGED <<now, storeVars, idVars, historyVars>>

\* One command of Promise.all([lRem, del]); the replies (how many were removed)
\* are not looked at.
DeleteReviewBatch(s) ==
    /\ req[s].op = "removeReview"
    /\ req[s].pc = "batch"
    /\ \E c \in req[s].pending :
        LET r == req[s]
            id == r.restaurantId
            last == r.pending = {c}
        IN  /\ CASE c = "lRem" ->
                    /\ reviews' = [reviews EXCEPT ![id] = LRem1(reviews[id], r.reviewId)]
                    /\ UNCHANGED reviewDetails
                 [] c = "del" ->
                    /\ reviewDetails' = Put(reviewDetails, r.reviewId, EmptyHash)
                    /\ UNCHANGED reviews
            /\ everRemoved' = [everRemoved EXCEPT ![id] =
                    @ \/ reviews' # reviews \/ reviewDetails' # reviewDetails]
            /\ IF last THEN Reply(s, "Ok", <<>>) ELSE Continue(s, Rest(r, c))
            /\ okRemoves' = IF last THEN Counted(okRemoves, r.reviewId)
                            ELSE okRemoves
    /\ UNCHANGED <<now, restaurantDetails, weather, restaurant, cuisineVars, restaurentsByRating,
                   bloom, idVars, pushed, doneAdds, doneGets, createdOk, givenCuisines, rejected, lastPut, unanswered, failedCalls>>

(***************************************************************************)
(* POST / : create a restaurant                                            *)
(***************************************************************************)
\* The commands of the creation's Promise.all: three SADDs per cuisine, the
\* record, the ranking entry and the filter.
\* The fan-out without the restaurant's own tag set.
CreateCommandsNoTagSet(cuisinesIn) ==
    {<<k, c>> : k \in {"cuisines", "cuisine"}, c \in cuisinesIn}
        \cup {<<"hSet", "">>, <<"zAdd", "">>, <<"bfAdd", "">>}

CreateCommands(cuisinesIn) ==
    {<<k, c>> : k \in {"cuisines", "cuisine", "restaurantCuisines"}, c \in cuisinesIn}
        \cup {<<"hSet", "">>, <<"zAdd", "">>, <<"bfAdd", "">>}

\* A create has no middleware in front that touches the store: the request arrives,
\* id = nanoid() is drawn, and the probe of the filter is the task's first command.
PostRestaurant(name, location, cuisinesIn) ==
    /\ nextRestaurantId <= MaxRestaurants
    /\ Arrive([Idle EXCEPT !.op = "create", !.pc = "bfExists",
                           !.restaurantId = nextRestaurantId, !.name = name,
                           !.location = location, !.cuisines = cuisinesIn])
    /\ nextRestaurantId' = nextRestaurantId + 1
    /\ givenCuisines' = [givenCuisines EXCEPT ![nextRestaurantId] = cuisinesIn]
    /\ UNCHANGED <<now, storeVars, nextReviewId, pushed, doneAdds, everRemoved, okRemoves, doneGets,
                   createdOk, rejected, lastPut, unanswered, failedCalls>>

\* seenBefore = await client.bf.exists(bloomKey, bloomString): a duplicate is
\* answered 400 "Restaurant seems to be duplicate", else the fan-out is issued.
PostRestaurantProbe(s) ==
    /\ req[s].op = "create"
    /\ req[s].pc = "bfExists"
    /\ \E seenBefore \in BfExistsReplies(bloom, BloomString(req[s].name, req[s].location)) :
        IF seenBefore
        THEN /\ Reply(s, "Conflict", <<>>)
             /\ rejected' = rejected \cup
                    {[item |-> BloomString(req[s].name, req[s].location),
                      created |-> BloomString(req[s].name, req[s].location) \in createdOk]}
        ELSE /\ Continue(s, [req[s] EXCEPT !.pc = "batch",
                                           !.pending = CreateCommands(req[s].cuisines)])
             /\ UNCHANGED rejected
    /\ UNCHANGED <<now, storeVars, idVars, pushed, doneAdds, everRemoved, okRemoves, doneGets,
                   createdOk, givenCuisines, lastPut, unanswered, failedCalls>>

\* One command of the creation's fan-out; after the last, the response.
PostRestaurantBatch(s) ==
    /\ req[s].op = "create"
    /\ req[s].pc = "batch"
    /\ \E c \in req[s].pending :
        LET r == req[s]
            id == r.restaurantId
            last == r.pending = {c}
        IN  /\ CASE c[1] = "cuisines" ->
                    /\ cuisines' = SAdd(cuisines, c[2])
                    /\ UNCHANGED <<cuisine, restaurantCuisines, restaurant,
                                   restaurentsByRating, bloom>>
                 [] c[1] = "cuisine" ->
                    /\ cuisine' = [cuisine EXCEPT ![c[2]] = SAdd(cuisine[c[2]], id)]
                    /\ UNCHANGED <<cuisines, restaurantCuisines, restaurant,
                                   restaurentsByRating, bloom>>
                 [] c[1] = "restaurantCuisines" ->
                    /\ restaurantCuisines' = [restaurantCuisines EXCEPT ![id] =
                            SAdd(restaurantCuisines[id], c[2])]
                    /\ UNCHANGED <<cuisines, cuisine, restaurant,
                                   restaurentsByRating, bloom>>
                 [] c[1] = "hSet" ->
                    /\ restaurant' = [restaurant EXCEPT ![id] =
                            HSet(restaurant[id], HashData(id, r.name, r.location))]
                    /\ UNCHANGED <<cuisineVars, restaurentsByRating, bloom>>
                 [] c[1] = "zAdd" ->
                    /\ restaurentsByRating' = ZAdd(restaurentsByRating, 0, id)
                    /\ UNCHANGED <<cuisineVars, restaurant, bloom>>
                 [] c[1] = "bfAdd" ->
                    /\ bloom' = BfAdd(bloom, BloomString(r.name, r.location))
                    /\ UNCHANGED <<cuisineVars, restaurant, restaurentsByRating>>
            /\ IF last THEN Reply(s, "Ok", <<>>) ELSE Continue(s, Rest(r, c))
            /\ createdOk' = IF last THEN createdOk \cup {BloomString(r.name, r.location)}
                            ELSE createdOk
    /\ UNCHANGED <<now, restaurantDetails, weather, reviews, reviewDetails, idVars, pushed, doneAdds, everRemoved, okRemoves, doneGets,
                   givenCuisines, rejected, lastPut, unanswered, failedCalls>>

(***************************************************************************)
(* GET /:restaurantId : the record, with one more view                     *)
(***************************************************************************)
GetRestaurant(id) ==
    /\ checkRestaurantExists(
            [Idle EXCEPT !.op = "get", !.pc = "batch", !.restaurantId = id,
                         !.pending = {"hIncrBy", "hGetAll", "sMembers"}])
    /\ UNCHANGED <<now, storeVars, idVars, historyVars>>

\* One command of Promise.all([hIncrBy viewCount, hGetAll, sMembers]).  The two
\* reads only fill the response's payload.
GetRestaurantBatch(s) ==
    /\ req[s].op = "get"
    /\ req[s].pc = "batch"
    /\ \E c \in req[s].pending :
        LET r == req[s]
            id == r.restaurantId
            last == r.pending = {c}
        IN  /\ restaurant' = IF c = "hIncrBy"
                             THEN [restaurant EXCEPT ![id] = HIncrBy(restaurant[id], "viewCount", 1)]
                             ELSE restaurant
            /\ IF last THEN Reply(s, "Ok", <<>>) ELSE Continue(s, Rest(r, c))
            /\ doneGets' = IF last THEN [doneGets EXCEPT ![id] = @ + 1] ELSE doneGets
    /\ UNCHANGED <<now, restaurantDetails, weather, reviews, reviewDetails, cuisineVars, restaurentsByRating, bloom, idVars,
                   pushed, doneAdds, everRemoved, okRemoves, createdOk, givenCuisines, rejected, lastPut, unanswered, failedCalls>>

(***************************************************************************)
(* GET / : the restaurants by rating, a page of them                       *)
(***************************************************************************)
\* Number(x || 0) of a hash field
NumberOr0(h, field) == IF field \in DOMAIN h THEN h[field] ELSE 0

\* { ...restaurant, cuisines, viewCount: Number(..), averageRating: Number(..),
\* totalReviews: Number(..) }, but for the cuisines, which their own read brings
Listed(h) ==
    HSet(h, [viewCount |-> NumberOr0(h, "viewCount"),
             averageRating |-> NumberOr0(h, "averageRating"),
             totalReviews |-> NumberOr0(h, "totalReviews")])

\* start = (page - 1) * limit, end = start + limit - 1, then ZRANGE ... REV.  An
\* empty page is answered at once, else the records of the ids are fetched.
GetRestaurants(page, limit) ==
    /\ LET start == (page - 1) * limit
           end == start + limit - 1
           restaurantIds == ZRangeRev(restaurentsByRating, start, end)
       IN  IF restaurantIds = <<>>
           THEN ArriveReply([Idle EXCEPT !.op = "getRestaurants"], "Ok", <<>>)
           ELSE Arrive([Idle EXCEPT !.op = "getRestaurants", !.pc = "fetch",
                                    !.start = start, !.end = end,
                                    !.restaurantIds = restaurantIds,
                                    !.restaurants = [i \in DOMAIN restaurantIds |-> EmptyHash],
                                    !.pending = {<<k, i>> : k \in {"hGetAll", "sMembers"},
                                                            i \in DOMAIN restaurantIds}])
    /\ UNCHANGED <<now, storeVars, idVars, historyVars>>

\* One read of the fetch of the page's records; after the last, the response.
GetRestaurantsFetch(s) ==
    /\ req[s].op = "getRestaurants"
    /\ req[s].pc = "fetch"
    /\ \E c \in req[s].pending :
        LET r == req[s]
            last == r.pending = {c}
            id == r.restaurantIds[c[2]]
            got == IF c[1] = "hGetAll"
                   THEN [r EXCEPT !.restaurants[c[2]] = HSet(@, Listed(restaurant[id]))]
                   ELSE [r EXCEPT !.restaurants[c[2]] =
                                    HSet(@, [cuisines |-> restaurantCuisines[id]])]
        IN  IF last THEN Reply(s, "Ok", got.restaurants) ELSE Continue(s, Rest(got, c))
    /\ UNCHANGED <<now, storeVars, idVars, historyVars>>

(***************************************************************************)
(* GET /:restaurantId/reviews : a page of the restaurant's reviews         *)
(***************************************************************************)
\* The middleware, then start = (page - 1) * limit and end = start + limit - 1.
GetReviews(id, page, limit) ==
    /\ checkRestaurantExists(
            [Idle EXCEPT !.op = "listReviews", !.pc = "lRange", !.restaurantId = id,
                         !.start = (page - 1) * limit,
                         !.end = (page - 1) * limit + limit - 1])
    /\ UNCHANGED <<now, storeVars, idVars, historyVars>>

\* reviewIds = await client.lRange(reviewKey, start, end): an empty page is
\* answered at once, else the record of every id is fetched.
GetReviewsRange(s) ==
    /\ req[s].op = "listReviews"
    /\ req[s].pc = "lRange"
    /\ LET reviewIds == Range(reviews[req[s].restaurantId], req[s].start, req[s].end)
       IN  IF reviewIds = <<>>
           THEN Reply(s, "Ok", <<>>)
           ELSE Continue(s, [req[s] EXCEPT !.pc = "fetch", !.reviewIds = reviewIds,
                                           !.reviews = [i \in DOMAIN reviewIds |-> EmptyHash],
                                           !.pending = DOMAIN reviewIds])
    /\ UNCHANGED <<now, storeVars, idVars, historyVars>>

\* Number(x) of a hash field; of a missing field it is NaN, which the JSON of
\* the response shows as null.
NumberOrNaN(h, field) == IF field \in DOMAIN h THEN h[field] ELSE Nil

\* { ...reviewData, rating: Number(reviewData.rating), timestamp: .. }: HGETALL of
\* a key that holds nothing is the empty object, not null, and nothing is thrown.
ListedReview(reviewData) == HSet(reviewData, [rating |-> NumberOrNaN(reviewData, "rating")])

\* reviews.filter(r => r !== null): null stands for a fetch that threw.
ValidReviews(fetched) == SelectSeq(fetched, LAMBDA r : r # EmptyHash)

\* One hGetAll of the page; after the last, the response.
GetReviewsFetch(s) ==
    /\ req[s].op = "listReviews"
    /\ req[s].pc = "fetch"
    /\ \E i \in req[s].pending :
        LET r == req[s]
            got == [r EXCEPT !.reviews[i] = ListedReview(Key(reviewDetails, r.reviewIds[i]))]
        IN  IF r.pending = {i}
            THEN Reply(s, "Ok", ValidReviews(got.reviews))
            ELSE Continue(s, Rest(got, i))
    /\ UNCHANGED <<now, storeVars, idVars, historyVars>>

(***************************************************************************)
(* errorHandler, behind every next(error)                                  *)
(***************************************************************************)
\* A handler of errors that answers success.
errorSwallowed(err) == "Ok"

\* 503 for a refused connection or a message that names Redis, else the
\* generic 500; the errors met here are no ZodError, no DUPLICATE_KEY, no 404.
errorHandler(err) == IF err = "ECONNREFUSED" THEN "Unavailable" ELSE "ServerError"

\* The kinds of response errorHandler gives to a failure of the store or of
\* the weather provider.
Failures == {"Unavailable", "ServerError"}

(***************************************************************************)
(* POST and GET /:restaurantId/details                                     *)
(***************************************************************************)
PostDetails(id, data) ==
    /\ checkRestaurantExists(
            [Idle EXCEPT !.op = "putDetails", !.pc = "jsonSet", !.restaurantId = id,
                         !.data = [document |-> data]])
    /\ UNCHANGED <<now, storeVars, idVars, historyVars>>

\* await client.json.set(restaurantDetailsKey, ".", data)
PostDetailsSet(s) ==
    /\ req[s].op = "putDetails"
    /\ req[s].pc = "jsonSet"
    /\ restaurantDetails' = Put(restaurantDetails, req[s].restaurantId, req[s].data)
    /\ Reply(s, "Ok", <<>>)
    /\ UNCHANGED <<now, restaurant, reviews, reviewDetails, cuisineVars, restaurentsByRating,
                   bloom, weather, idVars, historyVars>>

GetDetails(id) ==
    /\ checkRestaurantExists(
            [Idle EXCEPT !.op = "getDetails", !.pc = "jsonGet", !.restaurantId = id])
    /\ UNCHANGED <<now, storeVars, idVars, historyVars>>

\* details = await client.json.get(restaurantDetailsKey); 404 when there is none
GetDetailsGet(s) ==
    /\ req[s].op = "getDetails"
    /\ req[s].pc = "jsonGet"
    /\ IF Exists(Key(restaurantDetails, req[s].restaurantId))
       THEN Reply(s, "Ok", <<Key(restaurantDetails, req[s].restaurantId)>>)
       ELSE Reply(s, "NotFound", <<"Restaurant details not found">>)
    /\ UNCHANGED <<now, storeVars, idVars, historyVars>>

(***************************************************************************)
(* GET /:restaurantId/weather                                              *)
(***************************************************************************)
\* A GET that never lets an entry expire.
CachedForever(id) == IF id \in DOMAIN lastPut THEN lastPut[id].payload ELSE ""

\* GET of a key set with EX: the value until the expiry, nothing from then on.
CachedWeather(id) ==
    IF id \in DOMAIN weather /\ now < weather[id].expires THEN weather[id].payload ELSE ""

GetWeather(id) ==
    /\ checkRestaurantExists(
            [Idle EXCEPT !.op = "weather", !.pc = "get", !.restaurantId = id])
    /\ UNCHANGED <<now, storeVars, idVars, historyVars>>

\* cachedWeather = await client.get(weatherKeyById(restaurantId)): a hit is
\* answered from the cache, a miss goes on to the coordinates.
GetWeatherCached(s) ==
    /\ req[s].op = "weather"
    /\ req[s].pc = "get"
    /\ IF CachedWeather(req[s].restaurantId) # ""
       THEN Reply(s, "Ok", [payload |-> CachedWeather(req[s].restaurantId),
                            message |-> "Cache HIT"])
       ELSE Continue(s, [req[s] EXCEPT !.pc = "hGet", !.pending = {"latitude", "longitude"}])
    /\ UNCHANGED <<now, storeVars, idVars, historyVars>>

\* A test of the coordinates that never finds one missing.
MissingNever(coordinate) == FALSE

\* if (!latitude || !longitude): a missing field reads as null
Missing(coordinate) == coordinate = Nil

\* One command of Promise.all([hGet latitude, hGet longitude]); after the last,
\* 404 without both coordinates, else the provider is called.
GetWeatherCoordinates(s) ==
    /\ req[s].op = "weather"
    /\ req[s].pc = "hGet"
    /\ \E c \in req[s].pending :
        LET r == req[s]
            got == IF c = "latitude"
                   THEN [r EXCEPT !.latitude = HGet(restaurant[r.restaurantId], "latitude")]
                   ELSE [r EXCEPT !.longitude = HGet(restaurant[r.restaurantId], "longitude")]
        IN  IF r.pending # {c} THEN Continue(s, Rest(got, c))
            ELSE IF Missing(got.latitude) \/ Missing(got.longitude)
                 THEN Reply(s, "NotFound", <<"Coordinates not found for restaurant">>)
                 ELSE Continue(s, [got EXCEPT !.pc = "fetch", !.pending = {}])
    /\ UNCHANGED <<now, storeVars, idVars, historyVars>>

\* apiResponse = await fetch(...): a response that is not ok is thrown as an
\* Error and goes through next(error); else its JSON is to be cached.
GetWeatherFetch(s) ==
    /\ req[s].op = "weather"
    /\ req[s].pc = "fetch"
    /\ \/ \E json \in Payloads : Continue(s, [req[s] EXCEPT !.pc = "set", !.json = json])
       \/ Reply(s, errorHandler("Weather API returned status"), <<>>)
    /\ UNCHANGED <<now, storeVars, idVars, historyVars>>

\* await client.set(weatherKeyById(restaurantId), JSON.stringify(json), { EX: 60 })
GetWeatherSet(s) ==
    /\ req[s].op = "weather"
    /\ req[s].pc = "set"
    /\ weather' = Put(weather, req[s].restaurantId,
                      [payload |-> req[s].json, expires |-> now + WeatherTtl])
    /\ Reply(s, "Ok", [payload |-> req[s].json,
                        message |-> "Weather data fetched successfully"])
    /\ lastPut' = Put(lastPut, req[s].restaurantId, [payload |-> req[s].json, at |-> now])
    /\ UNCHANGED <<now, restaurant, reviews, reviewDetails, cuisineVars, restaurentsByRating,
                   bloom, restaurantDetails, idVars, pushed, doneAdds, everRemoved, okRemoves,
                   doneGets, createdOk, givenCuisines, rejected, unanswered, failedCalls>>

\* A second passes; the store drops the keys whose expiry has come.
Tick ==
    /\ now < MaxTime
    /\ now' = now + 1
    /\ weather' = [id \in {x \in DOMAIN weather : now + 1 < weather[x].expires} |-> weather[id]]
    /\ UNCHANGED <<restaurant, reviews, reviewDetails, cuisineVars, restaurentsByRating, bloom,
                   restaurantDetails, idVars, req, arrivals, response, historyVars>>


(***************************************************************************)
(* Store calls that fail                                                   *)
(***************************************************************************)
\* What a rejected store call throws: a refused connection, or any other error.
Errors == {"ECONNREFUSED", "ERR"}

\* The handler is over and has sent nothing: the request stays unanswered.
Abandon(s) ==
    /\ req' = [t \in DOMAIN req \ {s} |-> req[t]]
    /\ unanswered' = unanswered \cup {s}
    /\ UNCHANGED <<response, arrivals>>

\* The EXISTS of the middleware rejects.  The middleware awaits it outside any
\* try: the rejection of the async middleware is forwarded to errorHandler by a
\* router that handles returned promises, and is handled by nobody otherwise,
\* in which case no response is ever sent.
checkRestaurantExistsFails(op, id, err) ==
    /\ \/ /\ ArriveReply([Idle EXCEPT !.op = op, !.restaurantId = id], errorHandler(err), <<>>)
          /\ UNCHANGED unanswered
       \/ /\ arrivals' = arrivals + 1
          /\ unanswered' = unanswered \cup {arrivals + 1}
          /\ UNCHANGED <<req, response>>
    /\ failedCalls' = failedCalls \cup {arrivals + 1}
    /\ UNCHANGED <<now, storeVars, idVars, pushed, doneAdds, everRemoved, okRemoves, doneGets,
                   createdOk, givenCuisines, lastPut, rejected>>

\* The places where a task awaits store calls inside the try of its handler.
StoreCalls ==
    {<<"create", "bfExists">>, <<"create", "batch">>,
     <<"addReview", "batch1">>, <<"addReview", "batch2">>,
     <<"removeReview", "exists">>, <<"removeReview", "hGet">>, <<"removeReview", "batch">>,
     <<"get", "batch">>, <<"listReviews", "lRange">>,
     <<"putDetails", "jsonSet">>, <<"getDetails", "jsonGet">>,
     <<"weather", "get">>, <<"weather", "hGet">>, <<"weather", "set">>}

\* A store call of the task rejects: the await throws, the catch of the handler
\* calls next(error) and errorHandler answers.  Nothing is retried and nothing
\* that the calls before it wrote is taken back; the calls of the batch that
\* have had no reply are lost with it.
CommandFails(s, err) ==
    /\ <<req[s].op, req[s].pc>> \in StoreCalls
    /\ Reply(s, errorHandler(err), <<>>)
    /\ failedCalls' = failedCalls \cup {s}
    /\ UNCHANGED <<now, storeVars, idVars, pushed, doneAdds, everRemoved, okRemoves, doneGets,
                   createdOk, givenCuisines, lastPut, unanswered, rejected>>

\* One hGetAll of a page of reviews rejects: the catch around it gives null for
\* that review, which the page then leaves out.
GetReviewsFetchFails(s) ==
    /\ req[s].op = "listReviews"
    /\ req[s].pc = "fetch"
    /\ \E i \in req[s].pending :
        IF req[s].pending = {i}
        THEN Reply(s, "Ok", ValidReviews(req[s].reviews))
        ELSE Continue(s, Rest(req[s], i))
    /\ failedCalls' = failedCalls \cup {s}
    /\ UNCHANGED <<now, storeVars, idVars, pushed, doneAdds, everRemoved, okRemoves, doneGets,
                   createdOk, givenCuisines, lastPut, unanswered, rejected>>

(***************************************************************************)
(* GET /cuisines and GET /cuisines/:cuisine                                *)
(***************************************************************************)
\* cuisines = await client.sMembers(cuisinesKey), answered as they are.
GetCuisines ==
    /\ ArriveReply([Idle EXCEPT !.op = "cuisines"], "Ok", cuisines)
    /\ UNCHANGED <<now, storeVars, idVars, historyVars>>

\* hGetAll of `restaurant:${id}`: the records are under bites:restaurant:<id>,
\* and no route writes a key without the prefix, so the reply is the empty object.
HGetAllUnprefixed(id) == EmptyHash

\* restaurentIds = await client.sMembers(cuisineKey(cuisine)), then one hGetAll
\* for each id.
GetCuisine(tag) ==
    /\ Arrive([Idle EXCEPT !.op = "byCuisine", !.pc = "fetch", !.pending = cuisine[tag]])
    /\ UNCHANGED <<now, storeVars, idVars, historyVars>>

\* One hGetAll of the fetch.  After the last, or with no id at all, the
\* Promise.all is over, and with it the try block and the handler: restaurents
\* is never sent.
GetCuisineFetch(s) ==
    /\ req[s].op = "byCuisine"
    /\ req[s].pc = "fetch"
    /\ IF req[s].pending = {}
       THEN Abandon(s)
       ELSE \E id \in req[s].pending :
                LET got == [req[s] EXCEPT !.data = Put(@, id, HGetAllUnprefixed(id))]
                IN  IF req[s].pending = {id}
                    THEN Abandon(s)
                    ELSE /\ Continue(s, Rest(got, id))
                         /\ UNCHANGED unanswered
    /\ UNCHANGED <<now, storeVars, idVars, pushed, doneAdds, everRemoved, okRemoves, doneGets,
                   createdOk, givenCuisines, lastPut, failedCalls, rejected>>

(***************************************************************************)
(* The keys of the store                                                   *)
(***************************************************************************)
\* args.join(":")
RECURSIVE Join(_)
Join(args) ==
    IF args = <<>> THEN ""
    ELSE IF Len(args) = 1 THEN args[1]
    ELSE args[1] \o ":" \o Join(Tail(args))

\* args.join("")
RECURSIVE Concat(_)
Concat(args) == IF args = <<>> THEN "" ELSE args[1] \o Concat(Tail(args))

\* A key made without the separator.
getKeyNameUnseparated(args) == "bites:" \o Concat(args)

\* 'bites:' + args.join(":")
getKeyName(args) == "bites:" \o Join(args)

restaurantKeyById(id) == getKeyName(<<"restaurant", id>>)
reviewKeyById(id) == getKeyName(<<"reviews", id>>)
reviewDetailsKeyById(id) == getKeyName(<<"review_details", id>>)
cuisinesKey == getKeyName(<<"cuisines">>)
cuisineKey(name) == getKeyName(<<"cuisine", name>>)
restaurantCuisinesKeyById(id) == getKeyName(<<"restaurant_cuisines", id>>)
restaurentsByRatingKey == getKeyName(<<"restaurents_by_rating">>)
\* the ranking key as the copy of the key module beside the seed script spells it
restaurantsByRatingKey == getKeyName(<<"restaurants_by_rating">>)
weatherKeyById(id) == getKeyName(<<"weather", id>>)
restaurantDetailsKeyById(id) == getKeyName(<<"restaurant_details", id>>)
indexKey == getKeyName(<<"idx", "restaurents">>)
bloomKey == getKeyName(<<"bloom", "restaurents">>)

\* The kinds of key that take an id or a cuisine name, and those that take none.
IdKinds ==
    {"restaurant", "reviews", "review_details", "cuisine", "restaurant_cuisines", "weather",
     "restaurant_details"}
PlainKinds == {"cuisines", "ranking", "rankingOfSeed", "index", "bloom"}

\* Ids and cuisine names: of nanoid(), of a path parameter, and of a request body.
KeyIds == {"", "1", "s", "s:1", "_details:1", "restaurents", "Italian"}

KeyPairs == (IdKinds \X KeyIds) \cup (PlainKinds \X {""})

\* The key of a kind and an id, through the function of the kind.
KeyFor(kind, id) ==
    CASE kind = "restaurant" -> restaurantKeyById(id)
      [] kind = "reviews" -> reviewKeyById(id)
      [] kind = "review_details" -> reviewDetailsKeyById(id)
      [] kind = "cuisine" -> cuisineKey(id)
      [] kind = "restaurant_cuisines" -> restaurantCuisinesKeyById(id)
      [] kind = "weather" -> weatherKeyById(id)
      [] kind = "restaurant_details" -> restaurantDetailsKeyById(id)
      [] kind = "cuisines" -> cuisinesKey
      [] kind = "ranking" -> restaurentsByRatingKey
      [] kind = "rankingOfSeed" -> restaurantsByRatingKey
      [] kind = "index" -> indexKey
      [] kind = "bloom" -> bloomKey

\* A caller asks for the key of a kind and an id.
MakeKey(kind, id) ==
    /\ ArriveReply([Idle EXCEPT !.op = "key"], "Ok",
                   [kind |-> kind, id |-> id, key |-> KeyFor(kind, id)])
    /\ UNCHANGED <<now, storeVars, idVars, historyVars>>
(***************************************************************************)
(* Specifications.                                                         *)
(***************************************************************************)
\* Review ids a removal can name: an id of nanoid() is known to a caller once a
\* list shows it or its addition has answered; and 0, an id never handed out.
RevIds ==
    {v \in 1..(nextReviewId - 1) :
        \/ \E r \in RIds : \E i \in DOMAIN reviews[r] : reviews[r][i] = v
        \/ \A s \in DOMAIN req : ~(req[s].op = "addReview" /\ req[s].reviewId = v)}
        \cup {0}

ReviewSteps ==
    \/ \E s \in DOMAIN req : PostReviewBatch1(s)
    \/ \E s \in DOMAIN req : PostReviewBatch2(s)
    \/ \E s \in DOMAIN req : DeleteReviewExists(s)
    \/ \E s \in DOMAIN req : DeleteReviewOwner(s)
    \/ \E s \in DOMAIN req : DeleteReviewBatch(s)

\* The seeded restaurants, with review additions and removals on them.
NextReviews ==
    \/ /\ Room(MaxSlots, MaxRequests)
       /\ \/ \E id \in RIds, rating \in Ratings : PostReview(id, rating)
          \/ \E id \in RIds, v \in RevIds : DeleteReview(id, v)
    \/ ReviewSteps

Spec == InitSeeded /\ [][NextReviews]_vars

\* The same, in short runs.
NextFewReviews ==
    \/ /\ Room(MaxSlots, MaxFewRequests)
       /\ \/ \E id \in RIds, rating \in Ratings : PostReview(id, rating)
          \/ \E id \in RIds, v \in RevIds : DeleteReview(id, v)
    \/ ReviewSteps

SpecFewReviews == InitSeeded /\ [][NextFewReviews]_vars

\* The seeded restaurants, with review additions and the ranked listing.
NextRank ==
    \/ /\ Room(MaxSlots, MaxRankRequests)
       /\ \/ \E id \in Seeded, rating \in Ratings : PostReview(id, rating)
          \/ \E page \in Pages, limit \in Limits : GetRestaurants(page, limit)
    \/ \E s \in DOMAIN req : PostReviewBatch1(s)
    \/ \E s \in DOMAIN req : PostReviewBatch2(s)
    \/ \E s \in DOMAIN req : GetRestaurantsFetch(s)

SpecRank == InitSeeded /\ [][NextRank]_vars

\* The seeded restaurants, with views and review additions.
NextView ==
    \/ /\ Room(MaxSlots, MaxFewRequests)
       /\ \/ \E id \in RIds : GetRestaurant(id)
          \/ \E id \in RIds, rating \in Ratings : PostReview(id, rating)
    \/ \E s \in DOMAIN req : GetRestaurantBatch(s)
    \/ \E s \in DOMAIN req : PostReviewBatch1(s)
    \/ \E s \in DOMAIN req : PostReviewBatch2(s)

SpecView == InitSeeded /\ [][NextView]_vars

\* The empty store, with creations, and views and review additions on what
\* has been created.
NextCreate ==
    \/ /\ Room(MaxCreators, MaxFewRequests)
       /\ \/ \E name \in Names, location \in Locations, cuisinesIn \in CuisineInputs :
                PostRestaurant(name, location, cuisinesIn)
          \/ \E id \in RIds : GetRestaurant(id)
          \/ \E id \in RIds, rating \in Ratings : PostReview(id, rating)
    \/ \E s \in DOMAIN req : PostRestaurantProbe(s)
    \/ \E s \in DOMAIN req : PostRestaurantBatch(s)
    \/ \E s \in DOMAIN req : GetRestaurantBatch(s)
    \/ \E s \in DOMAIN req : PostReviewBatch1(s)
    \/ \E s \in DOMAIN req : PostReviewBatch2(s)

SpecCreate == Init /\ [][NextCreate]_vars

\* Restaurant 1 with three reviews: additions, removals and pages of reviews.
NextReviewed ==
    \/ /\ Room(MaxSlots, MaxFewRequests)
       /\ \/ \E id \in RIds, rating \in Ratings : PostReview(id, rating)
          \/ \E id \in RIds, v \in RevIds : DeleteReview(id, v)
          \/ \E id \in RIds, page \in Pages, limit \in Limits : GetReviews(id, page, limit)
    \/ ReviewSteps
    \/ \E s \in DOMAIN req : GetReviewsRange(s)
    \/ \E s \in DOMAIN req : GetReviewsFetch(s)

SpecReviewed == InitReviewed /\ [][NextReviewed]_vars

\* The same, but a page is read only once the additions and removals have
\* completed, and these wait for the pages in flight.
Writes == {"create", "addReview", "removeReview"}

NextSettled ==
    \/ /\ Room(MaxSlots, MaxFewRequests)
       /\ \A s \in DOMAIN req : req[s].op # "listReviews"
       /\ \/ \E id \in RIds, rating \in Ratings : PostReview(id, rating)
          \/ \E id \in RIds, v \in RevIds : DeleteReview(id, v)
    \/ /\ Room(MaxSlots, MaxFewRequests)
       /\ \A s \in DOMAIN req : req[s].op \notin Writes
       /\ \E id \in RIds, page \in Pages, limit \in Limits : GetReviews(id, page, limit)
    \/ ReviewSteps
    \/ \E s \in DOMAIN req : GetReviewsRange(s)
    \/ \E s \in DOMAIN req : GetReviewsFetch(s)

SpecSettled == InitReviewed /\ [][NextSettled]_vars


\* Restaurant 1 with coordinates: weather requests, and time.
NextWeather ==
    \/ /\ Room(MaxSlots, MaxFewRequests)
       /\ \E id \in RIds : GetWeather(id)
    \/ \E s \in DOMAIN req : GetWeatherCached(s)
    \/ \E s \in DOMAIN req : GetWeatherCoordinates(s)
    \/ \E s \in DOMAIN req : GetWeatherFetch(s)
    \/ \E s \in DOMAIN req : GetWeatherSet(s)
    \/ Tick

SpecWeather == InitWeather /\ [][NextWeather]_vars

\* The seeded restaurants and an id without a record: every route that names
\* a restaurant.
NextScoped ==
    \/ /\ Room(MaxScopedTasks, MaxFewRequests)
       /\ \/ \E id \in RIds : GetRestaurant(id)
          \/ \E id \in RIds, rating \in Ratings : PostReview(id, rating)
          \/ \E id \in RIds, page \in Pages, limit \in Limits : GetReviews(id, page, limit)
          \/ \E id \in RIds, v \in RevIds : DeleteReview(id, v)
          \/ \E id \in RIds, data \in Details : PostDetails(id, data)
          \/ \E id \in RIds : GetDetails(id)
          \/ \E id \in RIds : GetWeather(id)
    \/ ReviewSteps
    \/ \E s \in DOMAIN req : GetRestaurantBatch(s)
    \/ \E s \in DOMAIN req : GetReviewsRange(s)
    \/ \E s \in DOMAIN req : GetReviewsFetch(s)
    \/ \E s \in DOMAIN req : PostDetailsSet(s)
    \/ \E s \in DOMAIN req : GetDetailsGet(s)
    \/ \E s \in DOMAIN req : GetWeatherCached(s)
    \/ \E s \in DOMAIN req : GetWeatherCoordinates(s)

SpecScoped == InitSeeded /\ [][NextScoped]_vars

\* The routes behind the middleware.
ScopedOps ==
    {"get", "addReview", "listReviews", "removeReview", "putDetails", "getDetails", "weather"}

\* Names no seeded restaurant has.
NewNames == {"b"}

\* The seeded restaurants, one of them reviewed, with every route that writes
\* or names a restaurant, one request after another, and a store whose calls
\* may fail.
NextFailing ==
    \/ /\ DOMAIN req = {}
       /\ arrivals < MaxFailingRequests
       /\ \/ \E name \in NewNames, location \in Locations, cuisinesIn \in CuisineInputs :
                PostRestaurant(name, location, cuisinesIn)
          \/ \E id \in RIds : GetRestaurant(id)
          \/ \E id \in RIds, rating \in Ratings : PostReview(id, rating)
          \/ \E id \in RIds, page \in Pages, limit \in Limits : GetReviews(id, page, limit)
          \/ \E id \in RIds, v \in RevIds : DeleteReview(id, v)
          \/ \E id \in RIds, data \in Details : PostDetails(id, data)
          \/ \E id \in RIds : GetDetails(id)
          \/ \E id \in RIds : GetWeather(id)
          \/ \E op \in ScopedOps, id \in RIds, err \in Errors :
                checkRestaurantExistsFails(op, id, err)
    \/ ReviewSteps
    \/ \E s \in DOMAIN req : PostRestaurantProbe(s)
    \/ \E s \in DOMAIN req : PostRestaurantBatch(s)
    \/ \E s \in DOMAIN req : GetRestaurantBatch(s)
    \/ \E s \in DOMAIN req : GetReviewsRange(s)
    \/ \E s \in DOMAIN req : GetReviewsFetch(s)
    \/ \E s \in DOMAIN req : GetReviewsFetchFails(s)
    \/ \E s \in DOMAIN req : PostDetailsSet(s)
    \/ \E s \in DOMAIN req : GetDetailsGet(s)
    \/ \E s \in DOMAIN req : GetWeatherCached(s)
    \/ \E s \in DOMAIN req : GetWeatherCoordinates(s)
    \/ \E s \in DOMAIN req, err \in Errors : CommandFails(s, err)

SpecFailing == InitReviewed /\ [][NextFailing]_vars



\* The empty store, with creations and the two routes of the cuisines.
NextCuisines ==
    \/ /\ Room(MaxCreators, MaxFewRequests)
       /\ \/ \E name \in Names, location \in Locations, cuisinesIn \in CuisineInputs :
                PostRestaurant(name, location, cuisinesIn)
          \/ GetCuisines
          \/ \E tag \in Tags : GetCuisine(tag)
    \/ \E s \in DOMAIN req : PostRestaurantProbe(s)
    \/ \E s \in DOMAIN req : PostRestaurantBatch(s)
    \/ \E s \in DOMAIN req : GetCuisineFetch(s)

SpecCuisines == Init /\ [][NextCuisines]_vars

\* Keys asked for one after another.
NextKeys ==
    /\ arrivals < MaxFewRequests
    /\ \E p \in KeyPairs : MakeKey(p[1], p[2])

SpecKeys == Init /\ [][NextKeys]_vars

\* The empty store, with creations of which two at a time overlap.
NextRace ==
    \/ /\ Room(2, MaxFewRequests)
       /\ \E name \in Names, location \in Locations, cuisinesIn \in CuisineInputs :
            PostRestaurant(name, location, cuisinesIn)
    \/ \E s \in DOMAIN req : PostRestaurantProbe(s)
    \/ \E s \in DOMAIN req : PostRestaurantBatch(s)

SpecRace == Init /\ [][NextRace]_vars

\* The empty store, with creations and pages of the ranking that overlap.
NextListing ==
    \/ /\ Room(MaxSlots, MaxFewRequests)
       /\ \/ \E name \in Names, location \in Locations, cuisinesIn \in CuisineInputs :
                PostRestaurant(name, location, cuisinesIn)
          \/ \E page \in Pages, limit \in Limits : GetRestaurants(page, limit)
    \/ \E s \in DOMAIN req : PostRestaurantProbe(s)
    \/ \E s \in DOMAIN req : PostRestaurantBatch(s)
    \/ \E s \in DOMAIN req : GetRestaurantsFetch(s)

SpecListing == Init /\ [][NextListing]_vars

\* The empty store, with creations and, on what has been created, every route
\* that writes, and weather requests.
NextCoordinates ==
    \/ /\ Room(MaxCreators, MaxFewRequests)
       /\ \/ \E name \in Names, location \in Locations, cuisinesIn \in CuisineInputs :
                PostRestaurant(name, location, cuisinesIn)
          \/ \E id \in RIds : GetRestaurant(id)
          \/ \E id \in RIds, rating \in Ratings : PostReview(id, rating)
          \/ \E id \in RIds, data \in Details : PostDetails(id, data)
          \/ \E id \in RIds : GetWeather(id)
    \/ \E s \in DOMAIN req : PostRestaurantProbe(s)
    \/ \E s \in DOMAIN req : PostRestaurantBatch(s)
    \/ \E s \in DOMAIN req : GetRestaurantBatch(s)
    \/ \E s \in DOMAIN req : PostReviewBatch1(s)
    \/ \E s \in DOMAIN req : PostReviewBatch2(s)
    \/ \E s \in DOMAIN req : PostDetailsSet(s)
    \/ \E s \in DOMAIN req : GetWeatherCached(s)
    \/ \E s \in DOMAIN req : GetWeatherCoordinates(s)

SpecCoordinates == Init /\ [][NextCoordinates]_vars
(***************************************************************************)
(* Properties.                                                             *)
(***************************************************************************)
\* The tasks in flight that run one of the operations ops.
InFlight(ops) == {s \in DOMAIN req : req[s].op \in ops}

\* a (in tenths) is total/count rounded to one decimal, either way at a tie.
IsRounded(a, total, count) ==
    /\ 2 * (a * count - 10 * total) <= count
    /\ 2 * (10 * total - a * count) <= count

\* The task s takes this step.
Steps(s) == s \notin DOMAIN req' \/ req'[s] # req[s]

\* C1: once the additions to a restaurant have all completed, N >= 1 of them,
\* and no review of the restaurant was ever removed, the stored averageRating
\* is the mean of the N ratings, rounded to one decimal.
C1_AverageOfCompletedAdditions ==
    \A id \in Seeded :
        (/\ \A s \in InFlight({"addReview"}) : req[s].restaurantId # id
         /\ doneAdds[id].n >= 1
         /\ ~everRemoved[id])
            => IsRounded(restaurant[id].averageRating, doneAdds[id].sum, doneAdds[id].n)

\* C2: with no operation in flight, a restaurant with a non-empty review list
\* has averageRating = totalReviews / (length of the list), rounded to one decimal.
C2_AverageIsSumOverCount ==
    \A id \in Seeded :
        (DOMAIN req = {} /\ reviews[id] # <<>>)
            => IsRounded(restaurant[id].averageRating, restaurant[id].totalReviews,
                         Len(reviews[id]))

\* C3: with no operation in flight, a restaurant with an empty review list has
\* averageRating 0, fresh or after the removal of all its reviews.
C3_NoReviewsAverageZero ==
    \A id \in Seeded :
        (DOMAIN req = {} /\ reviews[id] = <<>>) => restaurant[id].averageRating = 0

\* C4: with no create and no review addition in flight, the score of every
\* entry of the ranking is the averageRating of the restaurant's record.
C4_ScoreIsAverage ==
    InFlight({"create", "addReview"}) = {}
        => \A id \in DOMAIN restaurentsByRating :
                restaurentsByRating[id] = HGet(restaurant[id], "averageRating")

\* C5: a page of the ranking read while no write is in flight lists a restaurant
\* with the greater stored averageRating first, holds at most limit ids, and
\* holds the ids at the ranks offset .. offset+limit-1 of the descending order.
C5_PageOrderedByAverage ==
    [][\A s \in DOMAIN req' \ DOMAIN req :
        (/\ req'[s].op = "getRestaurants"
         /\ InFlight({"create", "addReview", "removeReview", "get"}) = {})
            => LET ids == req'[s].restaurantIds
                   rank(m) == Cardinality({x \in DOMAIN restaurentsByRating :
                                    x # m /\ ZBefore(restaurentsByRating, x, m)})
               IN  /\ \A i, j \in DOMAIN ids :
                        restaurant[ids[i]].averageRating > restaurant[ids[j]].averageRating
                            => i < j
                   /\ Len(ids) <= req'[s].end - req'[s].start + 1
                   /\ \A i \in DOMAIN ids : rank(ids[i]) = req'[s].start + i - 1]_vars

C7_DuplicateRejected ==
    [][\A s \in InFlight({"create"}) :
        (/\ req[s].pc = "bfExists"
         /\ BloomString(req[s].name, req[s].location) \in createdOk
         /\ Steps(s))
            => /\ s \notin DOMAIN req'
               /\ response' = [op |-> "create", result |-> "Conflict", data |-> <<>>]
               /\ UNCHANGED storeVars]_vars

C7_DuplicateWasRejected ==
    /\ response = [op |-> "create", result |-> "Conflict", data |-> <<>>]
    /\ \E item \in createdOk : [item |-> item, created |-> TRUE] \in rejected
    /\ DOMAIN req = {}

\* C8: a restaurant's viewCount is the number of its completed gets when none
\* is in flight, and never more than that plus the gets in flight; it never
\* decreases, and only a get of the restaurant changes it.
C8_ViewCount ==
    /\ [](\A id \in Seeded :
            LET getting == {s \in InFlight({"get"}) : req[s].restaurantId = id}
            IN  /\ restaurant[id].viewCount >= doneGets[id]
                /\ restaurant[id].viewCount <= doneGets[id] + Cardinality(getting))
    /\ [][\A id \in Seeded :
            /\ restaurant'[id].viewCount >= restaurant[id].viewCount
            /\ restaurant'[id].viewCount # restaurant[id].viewCount
                => \E s \in InFlight({"get"}) : req[s].restaurantId = id /\ Steps(s)]_vars

C8_TwoGetsCounted ==
    \E id \in Seeded :
        /\ doneGets[id] = 2
        /\ restaurant[id].viewCount = 2
        /\ DOMAIN req = {}

\* C9: a removal that finds the review stored with another restaurantId than
\* the path's is answered Integrity-Mismatch, and no step of it has written:
\* review lists, review records, sums, averages and ranking are as before.
C9_MismatchChangesNothing ==
    [][\A s \in InFlight({"removeReview"}) :
        /\ (Steps(s) /\ req[s].pc # "batch") => UNCHANGED storeVars
        /\ (/\ Steps(s)
            /\ req[s].pc = "hGet"
            /\ Exists(Key(reviewDetails, req[s].reviewId))
            /\ Key(reviewDetails, req[s].reviewId).restaurantId # req[s].restaurantId)
                => /\ s \notin DOMAIN req'
                   /\ response' = [op |-> "removeReview", result |-> "IntegrityMismatch",
                                   data |-> <<>>]]_vars

C9_MismatchAnswered ==
    /\ response = [op |-> "removeReview", result |-> "IntegrityMismatch", data |-> <<>>]
    /\ DOMAIN req = {}
    /\ arrivals = 2
    /\ \E id \in Seeded, v \in DOMAIN reviewDetails :
        reviews[id] = <<v>> /\ reviewDetails[v].restaurantId = id

\* C10: among the removals of one review id at most one reports success.
C10_OneRemovalSucceeds ==
    \A v \in DOMAIN okRemoves : okRemoves[v] <= 1

\* The list l without the review id v.
Without(l, v) == SelectSeq(l, LAMBDA x : x # v)

\* C11: the commands of a removal that has passed its checks leave the list of
\* the restaurant as it was but for the one occurrence of the review id, the
\* order of the others kept, and delete the record of that review; the
\* restaurant's record (sum, average), the ranking, the other lists and every
\* other review record stay as they are; success is answered after both.
C11_RemovalFrame ==
    [][\A s \in InFlight({"removeReview"}) :
        (req[s].pc = "batch" /\ Steps(s))
            => LET id == req[s].restaurantId
                   v == req[s].reviewId
                   others == DOMAIN reviewDetails \ {v}
               IN  /\ restaurant' = restaurant
                   /\ restaurentsByRating' = restaurentsByRating
                   /\ \A r \in RIds \ {id} : reviews'[r] = reviews[r]
                   /\ Cardinality({i \in DOMAIN reviews[id] : reviews[id][i] = v}) <= 1
                   /\ \/ /\ reviews'[id] = Without(reviews[id], v)
                         /\ reviewDetails' = reviewDetails
                      \/ /\ reviews'[id] = reviews[id]
                         /\ DOMAIN reviewDetails' = others
                         /\ \A w \in others : reviewDetails'[w] = reviewDetails[w]
                   /\ s \notin DOMAIN req'
                        => /\ response'.result = "Ok"
                           /\ v \notin DOMAIN reviewDetails'
                           /\ reviews'[id] = Without(reviews'[id], v)]_vars

C11_MiddleReviewRemoved ==
    /\ response = [op |-> "removeReview", result |-> "Ok", data |-> <<>>]
    /\ DOMAIN req = {}
    /\ reviews[1] = <<3, 1>>
    /\ DOMAIN reviewDetails = {1, 3}
    /\ restaurant[1].totalReviews = 11
    /\ restaurant[1].averageRating = restaurentsByRating[1]

\* C12: a get, review addition, page of reviews, review removal, put or get of
\* details, or weather request that names an id without a restaurant record is
\* answered Not-Found at once and changes nothing; and nothing is ever stored
\* under such an id: no record or view counter, no review list or review
\* record, no ranking entry, no details document, no cache entry.
C12_UnknownRestaurant ==
    /\ [](\A id \in RIds :
            ~Exists(restaurant[id])
                => /\ reviews[id] = <<>>
                   /\ \A v \in DOMAIN reviewDetails : reviewDetails[v].restaurantId # id
                   /\ id \notin DOMAIN restaurentsByRating
                   /\ id \notin DOMAIN restaurantDetails
                   /\ id \notin DOMAIN weather
                   /\ \A s \in DOMAIN req : req[s].restaurantId # id)
    /\ [][\A id \in RIds :
            (/\ ~Exists(restaurant[id])
             /\ \/ GetRestaurant(id)
                \/ \E rating \in Ratings : PostReview(id, rating)
                \/ \E page \in Pages, limit \in Limits : GetReviews(id, page, limit)
                \/ \E v \in RevIds : DeleteReview(id, v)
                \/ \E data \in Details : PostDetails(id, data)
                \/ GetDetails(id)
                \/ GetWeather(id))
                => /\ response'.result = "NotFound"
                   /\ req' = req
                   /\ UNCHANGED storeVars]_vars

C12_AdditionNotFound ==
    /\ response = [op |-> "addReview", result |-> "NotFound", data |-> <<>>]
    /\ DOMAIN req = {}
    /\ \E id \in RIds : ~Exists(restaurant[id]) /\ reviews[id] = <<>>

\* C13: when a create answers success and nothing else has named its id, the
\* record of the id has the given name and location and viewCount,
\* averageRating and totalReviews 0, the ranking has the id with score 0, and
\* the tag set of the id is the given cuisines; no command of a create changes
\* the record, the tag set or the ranking entry of another restaurant.
C13_Created ==
    [][\A s \in InFlight({"create"}) :
        (req[s].pc = "batch" /\ Steps(s))
            => LET id == req[s].restaurantId
               IN  /\ \A o \in RIds \ {id} :
                        /\ restaurant'[o] = restaurant[o]
                        /\ restaurantCuisines'[o] = restaurantCuisines[o]
                        /\ o \in DOMAIN restaurentsByRating' <=> o \in DOMAIN restaurentsByRating
                        /\ o \in DOMAIN restaurentsByRating
                            => restaurentsByRating'[o] = restaurentsByRating[o]
                   /\ (/\ s \notin DOMAIN req'
                       /\ \A t \in DOMAIN req \ {s} : req[t].restaurantId # id
                       /\ doneGets[id] = 0
                       /\ doneAdds[id].n = 0)
                        => /\ response'.result = "Ok"
                           /\ restaurant'[id] =
                                [id |-> id, name |-> req[s].name, location |-> req[s].location,
                                 viewCount |-> 0, averageRating |-> 0, totalReviews |-> 0]
                           /\ id \in DOMAIN restaurentsByRating'
                           /\ restaurentsByRating'[id] = 0
                           /\ restaurantCuisines'[id] = req[s].cuisines]_vars

C13_SecondCreated ==
    /\ response = [op |-> "create", result |-> "Ok", data |-> <<>>]
    /\ DOMAIN req = {}
    /\ \E a, b \in RIds :
        /\ a # b
        /\ Exists(restaurant[a]) /\ Exists(restaurant[b])
        /\ restaurant[a].name = "a" /\ restaurant[b].name = "a|b"
        /\ restaurant[a].viewCount = 0 /\ restaurant[b].viewCount = 0
        /\ restaurantCuisines[a] # restaurantCuisines[b]
        /\ DOMAIN restaurentsByRating = {a, b}

\* The reviews added to restaurant r and not removed, the latest first.
Live(r) == SelectSeq(pushed[r], LAMBDA v : v \notin DOMAIN okRemoves)

\* C14: once the additions and removals have completed, the list of a
\* restaurant is its added and not removed reviews, the latest first, each with
\* its record under that restaurant and in no other list; and a page read then
\* is answered with the full records of positions offset .. offset+limit-1.
C14_PageOfReviews ==
    /\ [](InFlight(Writes) = {}
            => /\ \A r \in RIds :
                    /\ reviews[r] = Live(r)
                    /\ \A i \in DOMAIN reviews[r] :
                        /\ reviews[r][i] \in DOMAIN reviewDetails
                        /\ reviewDetails[reviews[r][i]].id = reviews[r][i]
                        /\ reviewDetails[reviews[r][i]].restaurantId = r
               /\ \A v \in DOMAIN reviewDetails :
                    Cardinality({<<r, i>> \in RIds \X (1..nextReviewId) :
                                    i \in DOMAIN reviews[r] /\ reviews[r][i] = v}) = 1)
    /\ [][\A s \in InFlight({"listReviews"}) :
            (Steps(s) /\ s \notin DOMAIN req')
                => LET page == Range(Live(req[s].restaurantId), req[s].start, req[s].end)
                   IN  /\ response'.result = "Ok"
                       /\ response'.data = [i \in DOMAIN page |-> reviewDetails[page[i]]]]_vars

C14_PageAfterRemoval ==
    /\ response.op = "listReviews"
    /\ response.result = "Ok"
    /\ Len(response.data) = 2
    /\ response.data[1] = [id |-> 3, rating |-> 5, restaurantId |-> 1]
    /\ response.data[2] = [id |-> 1, rating |-> 5, restaurantId |-> 1]
    /\ 2 \notin DOMAIN reviewDetails

\* C15: every element of a page of reviews is the full record of a review; an
\* id whose record is absent when it is resolved is left out of the page.
C15_MissingRecordOmitted ==
    (response.op = "listReviews" /\ response.result = "Ok")
        => \A i \in DOMAIN response.data :
                {"id", "rating", "restaurantId"} \subseteq DOMAIN response.data[i]

\* C16: a weather request that reads the cache less than 60 after the last put
\* for the restaurant is answered with the payload of that put, from the cache
\* and at once, so without the record store and the provider; one that reads
\* it 60 or more after the last put, or with no put, is a miss: it is not
\* answered and goes on to the coordinates of the record, and with them to the
\* provider.
C16_WeatherCache ==
    [][\A s \in InFlight({"weather"}) :
        LET id == req[s].restaurantId
        IN  /\ (Steps(s) /\ req[s].pc = "get")
                => IF id \in DOMAIN lastPut /\ now - lastPut[id].at < 60
                   THEN /\ s \notin DOMAIN req'
                        /\ response' = [op |-> "weather", result |-> "Ok",
                                        data |-> [payload |-> lastPut[id].payload,
                                                  message |-> "Cache HIT"]]
                        /\ UNCHANGED storeVars
                   ELSE /\ s \in DOMAIN req'
                        /\ req'[s].pc = "hGet"
                        /\ response' = response
            /\ (Steps(s) /\ req[s].pc = "hGet" /\ s \in DOMAIN req' /\ req'[s].pc # "hGet")
                => req'[s].pc = "fetch"]_vars

C16_AnsweredFromCache ==
    /\ response.op = "weather"
    /\ response.result = "Ok"
    /\ response.data.message = "Cache HIT"
    /\ 1 \in DOMAIN lastPut
    /\ response.data.payload = lastPut[1].payload
    /\ now - lastPut[1].at = 59

C18_CompositeFailure ==
    [][\A s \in InFlight({"create", "addReview", "removeReview"}) :
        /\ (\E err \in Errors : CommandFails(s, err))
            => /\ response'.op = req[s].op
               /\ response'.result \in {"Unavailable", "ServerError"}
               /\ s \notin DOMAIN req'
               /\ arrivals' = arrivals
               /\ UNCHANGED storeVars
        /\ (s \notin DOMAIN req' /\ response'.result = "Ok")
            => /\ Steps(s)
               /\ ~ \E err \in Errors : CommandFails(s, err)]_vars

C18_HalfAddedReview ==
    /\ response.op = "addReview"
    /\ response.result \in {"Unavailable", "ServerError"}
    /\ DOMAIN req = {}
    /\ \E i \in DOMAIN reviews[1] : ~Exists(Key(reviewDetails, reviews[1][i]))

\* C19: a request that has had a store call fail, the EXISTS of the middleware
\* included, ends with a failure response to its caller; no request ends
\* without a response.
C19_FailureAnswered ==
    [][/\ \A s \in failedCalls' :
            (s \notin DOMAIN req' /\ (s \in DOMAIN req \/ s = arrivals + 1))
                => /\ response'.result \in {"Unavailable", "ServerError"}
                   /\ s \notin unanswered'
       /\ unanswered' = {}]_vars

\* C20: a request for the restaurants of a tag is answered: none is over with
\* no response sent; and the response lists the restaurants that have the tag.
C20_RestaurantsByTag ==
    /\ \A s \in unanswered : FALSE
    /\ response.op = "byCuisine"
        => /\ response.result = "Ok"
           /\ \E tag \in Tags : response.data = {r \in RIds : tag \in restaurantCuisines[r]}

C22_ProbeThenRecord ==
    [][\A s \in InFlight({"create"}) :
        (Steps(s) /\ req[s].pc = "bfExists" /\ bloom = {})
            => /\ s \in DOMAIN req'
               /\ req'[s].pc = "batch"
               /\ response' = response]_vars

C22_TwoRecordsOneSignature ==
    \E a, b \in RIds :
        /\ a # b
        /\ Exists(restaurant[a]) /\ Exists(restaurant[b])
        /\ BloomString(restaurant[a].name, restaurant[a].location)
                = BloomString(restaurant[b].name, restaurant[b].location)
        /\ a \in DOMAIN restaurentsByRating
        /\ b \in DOMAIN restaurentsByRating
        /\ DOMAIN req = {}
        /\ response.op = "create" /\ response.result = "Ok"

\* The sum of the ratings of the tasks of S.
RECURSIVE RatingsOf(_)
RatingsOf(S) ==
    IF S = {} THEN 0
    ELSE LET s == CHOOSE t \in S : TRUE IN req[s].rating + RatingsOf(S \ {s})

\* The additions to restaurant id whose increment has been executed.
Incremented(id) ==
    {s \in InFlight({"addReview"}) :
        req[s].restaurantId = id /\ ~(req[s].pc = "batch1" /\ "hIncrBy" \in req[s].pending)}

\* C23: the totalReviews of a restaurant is the sum of the ratings of all the
\* additions to it that have executed their increment, each counted once,
\* whatever additions and removals overlap; so with no addition in flight it is
\* the sum of the ratings of all reviews ever added, removed or not.
C23_RatingSum ==
    \A id \in Seeded :
        /\ restaurant[id].totalReviews = doneAdds[id].sum + RatingsOf(Incremented(id))
        /\ InFlight({"addReview"}) = {} => restaurant[id].totalReviews = doneAdds[id].sum

C23_SumAfterRemoval ==
    /\ DOMAIN req = {}
    /\ doneAdds[1].n = 4
    /\ DOMAIN okRemoves # {}
    /\ Len(reviews[1]) = 3
    /\ restaurant[1].totalReviews = doneAdds[1].sum
    /\ restaurant[1].totalReviews = 16

\* C24: the reviewCount of an addition is the length of the restaurant's list
\* right after the addition's own push: one more than before it, so at least
\* 1, and the list then holds the addition's review; the addition divides by it
\* only once it has it, whatever additions and removals overlap.
C24_DivisorCountsOwnPush ==
    [][\A s \in InFlight({"addReview"}) :
        LET id == req[s].restaurantId
        IN  /\ (Steps(s) /\ req[s].pc = "batch1" /\ req'[s].reviewCount # req[s].reviewCount)
                => /\ req'[s].reviewCount = Len(reviews[id]) + 1
                   /\ req'[s].reviewCount = Len(reviews'[id])
                   /\ req'[s].reviewCount >= 1
                   /\ \E i \in DOMAIN reviews'[id] : reviews'[id][i] = req[s].reviewId
            /\ (Steps(s) /\ s \in DOMAIN req' /\ req'[s].pc = "batch2")
                => req'[s].reviewCount >= 1]_vars

C24_SecondOfTwoAdditions ==
    \E s, t \in InFlight({"addReview"}) :
        /\ s # t
        /\ req[s].restaurantId = 2 /\ req[t].restaurantId = 2
        /\ req[s].pc = "batch2" /\ req[t].pc = "batch2"
        /\ req[s].reviewCount = 1
        /\ req[t].reviewCount = 2

\* C25: a creation that is answered with a failure leaves its name|location
\* not recorded in the filter.
C25_FailedCreationNotRecorded ==
    [][\A s \in InFlight({"create"}) :
        (\E err \in Errors : CommandFails(s, err))
            => BloomString(req[s].name, req[s].location) \notin bloom']_vars

\* C26: in every state the averageRating and the ranking score of every
\* restaurant are between 0 and 5 (in tenths, between 0 and 50).
C26_AverageWithinRatings ==
    \A id \in Seeded :
        /\ restaurant[id].averageRating >= 0
        /\ restaurant[id].averageRating <= 50
        /\ restaurentsByRating[id] >= 0
        /\ restaurentsByRating[id] <= 50

\* How often v occurs in the list l.
Occurrences(l, v) == Cardinality({i \in DOMAIN l : l[i] = v})

====
